---- MODULE Spec2Model ----
(***************************************************************************)
(* Model of the ClickHouse language server (server.ts): the negotiation,   *)
(* the semantic-token pipeline of getSemanticTokens, the parser            *)
(* initialisation handler, and the formatter with its error normaliser     *)
(* parseClickHouseError.                                                   *)
(*                                                                         *)
(* A text is a sequence of one-character strings.  Positions (rows and     *)
(* columns) are 0-based as in the source; sequences are 1-based.           *)
(***************************************************************************)
EXTENDS Integers, Sequences, FiniteSets, TLC

VARIABLES parser, clickhouseLanguage, languageSet, initPc, document, hl, failedBefore, fmt,
          wasmPath, highlightsPath, clickhouseFormatPath, legend

vars == <<parser, clickhouseLanguage, languageSet, initPc, document, hl, failedBefore, fmt,
          wasmPath, highlightsPath, clickhouseFormatPath, legend>>

configVars == <<wasmPath, highlightsPath, clickhouseFormatPath, legend>>

initVars == <<parser, clickhouseLanguage, languageSet, initPc>>

hlVars == <<document, hl, failedBefore>>

----------------------------------------------------------------------------
(* Bounds *)

\* longest sequence of captures query.matches yields in one request
MaxCaptures == 2

\* most stderr chunks the formatter process delivers in one run
MaxChunks == 3

----------------------------------------------------------------------------
(* Texts *)

NL == "\n"

\* n copies of the character c
RECURSIVE Rep(_, _)
Rep(c, n) == IF n = 0 THEN <<>> ELSE <<c>> \o Rep(c, n - 1)

\* s.slice(i) with a 1-based start
Drop(s, i) == SubSeq(s, i, Len(s))

\* does p occur in s starting at the 1-based index i
StartsAt(s, p, i) == /\ i >= 1
                     /\ i + Len(p) - 1 <= Len(s)
                     /\ SubSeq(s, i, i + Len(p) - 1) = p

\* String.prototype.split('\n'): always at least one piece
RECURSIVE SplitNL(_)
SplitNL(s) ==
    IF \A i \in 1..Len(s) : s[i] # NL
    THEN <<s>>
    ELSE LET k == CHOOSE i \in 1..Len(s) : s[i] = NL /\ \A j \in 1..(i - 1) : s[j] # NL
         IN  <<SubSeq(s, 1, k - 1)>> \o SplitNL(Drop(s, k + 1))

----------------------------------------------------------------------------
(* Capability table *)

tokenTypes == <<"keyword", "type", "string", "number", "comment",
                "variable", "function", "operator", "punctuation">>

tokenModifiers == <<>>

\* the own keys of the captureToTokenType object literal
TableKeys == {"keyword", "type.builtin", "type", "string", "number", "comment",
              "variable", "function", "operator", "punctuation.bracket",
              "punctuation.delimiter"}

\* property names every object literal inherits from Object.prototype
InheritedKeys == {"constructor", "toString", "valueOf", "hasOwnProperty"}

\* the value captureToTokenType[name] has for an inherited name: a function
\* object, which is neither undefined nor one of the indices 0..8
InheritedMember == -1

\* the result of a lookup that finds no property
Undefined == -2

\* the value the object literal gives each of its own keys
TableValue(name) ==
    CASE name = "keyword" -> 0
      [] name = "type.builtin" -> 1
      [] name = "type" -> 1
      [] name = "string" -> 2
      [] name = "number" -> 3
      [] name = "comment" -> 4
      [] name = "variable" -> 5
      [] name = "function" -> 6
      [] name = "operator" -> 7
      [] name = "punctuation.bracket" -> 8
      [] name = "punctuation.delimiter" -> 8
      [] OTHER -> Undefined

\* captureToTokenType[captureName]: a property read on a plain object
captureToTokenType(name) ==
    IF name \in TableKeys THEN TableValue(name)
    ELSE IF name \in InheritedKeys THEN InheritedMember
    ELSE Undefined

----------------------------------------------------------------------------
(* Token extraction *)

Token(l, c, n, t) == [line |-> l, char |-> c, length |-> n, tokenType |-> t]

\* a capture: its name and its node's start and end positions
Capture(nm, sr, sc, er, ec) ==
    [name |-> nm, startRow |-> sr, startColumn |-> sc, endRow |-> er, endColumn |-> ec]

\* does the loop body reach text.split('\n')[row].length with no such row
CaptureThrows(text, cap) ==
    /\ captureToTokenType(cap.name) # Undefined
    /\ cap.startRow # cap.endRow
    /\ cap.startRow + 1 > Len(SplitNL(text))

\* CaptureTokens taking the span's column difference on every node
CaptureTokensColumnDiff(text, cap) ==
    LET tokenTypeIndex == captureToTokenType(cap.name)
    IN  IF tokenTypeIndex = Undefined THEN <<>>
        ELSE <<Token(cap.startRow, cap.startColumn,
                     cap.endColumn - cap.startColumn, tokenTypeIndex)>>

\* the tokens one capture pushes (none or one)
CaptureTokens(text, cap) ==
    LET tokenTypeIndex == captureToTokenType(cap.name)
    IN  IF tokenTypeIndex = Undefined THEN <<>>
        ELSE IF cap.startRow = cap.endRow
        THEN <<Token(cap.startRow, cap.startColumn,
                     cap.endColumn - cap.startColumn, tokenTypeIndex)>>
        ELSE LET firstLineLength ==
                     Len(SplitNL(text)[cap.startRow + 1]) - cap.startColumn
             IN  <<Token(cap.startRow, cap.startColumn, firstLineLength, tokenTypeIndex)>>

\* the loop over the captures, in the order the matches list them
RECURSIVE ExtractTokens(_, _)
ExtractTokens(text, caps) ==
    IF caps = <<>> THEN <<>>
    ELSE CaptureTokens(text, Head(caps)) \o ExtractTokens(text, Tail(caps))

\* the index of the first capture at which the loop throws, 0 if none
FirstThrow(text, caps) ==
    IF \E i \in 1..Len(caps) : CaptureThrows(text, caps[i])
    THEN CHOOSE i \in 1..Len(caps) :
            /\ CaptureThrows(text, caps[i])
            /\ \A j \in 1..(i - 1) : ~CaptureThrows(text, caps[j])
    ELSE 0

----------------------------------------------------------------------------
(* Token order *)

\* compareTokens without its second key
compareTokensLineOnly(a, b) == a.line - b.line

\* compareTokens with the column difference the wrong way round
compareTokensCharDescending(a, b) ==
    IF a.line # b.line THEN a.line - b.line ELSE b.char - a.char

\* the comparator handed to tokens.sort
compareTokens(a, b) ==
    IF a.line # b.line THEN a.line - b.line ELSE a.char - b.char

\* insert t behind every element that does not compare greater (stable)
RECURSIVE InsertToken(_, _)
InsertToken(s, t) ==
    IF s = <<>> THEN <<t>>
    ELSE IF compareTokens(Head(s), t) <= 0
         THEN <<Head(s)>> \o InsertToken(Tail(s), t)
         ELSE <<t>> \o s

\* Array.prototype.sort with compareTokens: a stable sort
RECURSIVE SortTokens(_)
SortTokens(s) ==
    IF s = <<>> THEN <<>>
    ELSE InsertToken(SortTokens(SubSeq(s, 1, Len(s) - 1)), s[Len(s)])

----------------------------------------------------------------------------
(* Delta encoding *)

\* SemanticTokensBuilder.push: the five integers appended for one token,
\* given the number of integers already in the buffer and the previous token
BuilderPush(dataLen, prevLine, prevChar, line, char, length, tokenType, modifiers) ==
    LET pushLine == IF dataLen > 0 THEN line - prevLine ELSE line
        pushChar == IF dataLen > 0 /\ pushLine = 0 THEN char - prevChar ELSE char
    IN  <<pushLine, pushChar, length, tokenType, modifiers>>

\* EncodeFrom pushing the length where the column belongs
RECURSIVE EncodeFromLengthAsChar(_, _, _, _)
EncodeFromLengthAsChar(toks, dataLen, prevLine, prevChar) ==
    IF toks = <<>> THEN <<>>
    ELSE LET token == Head(toks)
         IN  BuilderPush(dataLen, prevLine, prevChar,
                         token.line, token.length, token.char, token.tokenType, 0)
             \o EncodeFromLengthAsChar(Tail(toks), dataLen + 5, token.line, token.length)

\* the loop that pushes every token of the sorted list, then build().data
RECURSIVE EncodeFrom(_, _, _, _)
EncodeFrom(toks, dataLen, prevLine, prevChar) ==
    IF toks = <<>> THEN <<>>
    ELSE LET token == Head(toks)
         IN  BuilderPush(dataLen, prevLine, prevChar,
                         token.line, token.char, token.length, token.tokenType, 0)
             \o EncodeFrom(Tail(toks), dataLen + 5, token.line, token.char)

EncodeTokens(toks) == EncodeFrom(toks, 0, 0, 0)

----------------------------------------------------------------------------
(* Formatter error normaliser: parseClickHouseError *)

Digits == {"0", "1", "2", "3", "4", "5", "6", "7", "8", "9"}

\* the characters \s matches
WhiteSpace == {" ", "\t", "\r", "\f", NL}

\* the characters . does not match
LineTerminators == {NL, "\r"}

\* the literal pieces of the regular expressions and of the messages
LineOpen ==
    <<"(", "l", "i", "n", "e", " ">>

ColSep ==
    <<",", " ", "c", "o", "l", " ">>

FailedAt ==
    <<"f", "a", "i", "l", "e", "d", " ", "a", "t", " ", "p", "o", "s", "i",
      "t", "i", "o", "n", " ">>

ParenOpen ==
    <<" ", "(">>

ExceptionMarker ==
    <<"D", "B", ":", ":", "E", "x", "c", "e", "p", "t", "i", "o", "n", ":",
      " ">>

CodePrefix ==
    <<"C", "o", "d", "e", ":", " ">>

MsgAtLine ==
    <<"S", "y", "n", "t", "a", "x", " ", "e", "r", "r", "o", "r", " ", "a",
      "t", " ", "l", "i", "n", "e", " ">>

MsgColumn ==
    <<",", " ", "c", "o", "l", "u", "m", "n", " ">>

MsgUnexpected ==
    <<":", " ", "u", "n", "e", "x", "p", "e", "c", "t", "e", "d", " ", "'">>

MsgToken ==
    <<"S", "y", "n", "t", "a", "x", " ", "e", "r", "r", "o", "r", ":", " ",
      "u", "n", "e", "x", "p", "e", "c", "t", "e", "d", " ", "'">>

MsgPosition ==
    <<"S", "y", "n", "t", "a", "x", " ", "e", "r", "r", "o", "r", " ", "a",
      "t", " ", "p", "o", "s", "i", "t", "i", "o", "n", " ">>

MsgFailed ==
    <<"F", "o", "r", "m", "a", "t", "t", "i", "n", "g", " ", "f", "a", "i",
      "l", "e", "d", ":", " ">>

MsgUnknown ==
    <<"U", "n", "k", "n", "o", "w", "n", " ", "e", "r", "r", "o", "r">>

\* the least element of a non-empty set of indices
Least(S) == CHOOSE x \in S : \A y \in S : x <= y

\* the index of the first character from i on that is not in the set cs, the
\* index behind the text when there is none: where a greedy run cs+ ends
RunEnd(s, i, cs) ==
    LET stops == {j \in i..Len(s) : s[j] \notin cs}
    IN  IF stops = {} THEN Len(s) + 1 ELSE Least(stops)

\* the index behind the longest run of digits that starts at i
SkipDigits(s, i) == RunEnd(s, i, Digits)

\* the index behind the longest run of white space that starts at i
SkipSpace(s, i) == RunEnd(s, i, WhiteSpace)

\* the index behind the longest run of characters other than ")" from i
SkipToken(s, i) ==
    LET stops == {j \in i..Len(s) : s[j] = ")"}
    IN  IF stops = {} THEN Len(s) + 1 ELSE Least(stops)

NoMatch == [matched |-> FALSE, groups |-> <<>>]

\* /\(line (\d+), col (\d+)\)/ tried at index i
LineColAt(s, i) ==
    LET a == i + Len(LineOpen)
        b == SkipDigits(s, a)
        c == b + Len(ColSep)
        d == SkipDigits(s, c)
    IN  IF /\ StartsAt(s, LineOpen, i)
           /\ b > a
           /\ StartsAt(s, ColSep, b)
           /\ d > c
           /\ StartsAt(s, <<")">>, d)
        THEN [matched |-> TRUE, groups |-> <<SubSeq(s, a, b - 1), SubSeq(s, c, d - 1)>>]
        ELSE NoMatch

\* /failed at position \d+ \(([^)]+)\)/ tried at index i
TokenAt(s, i) ==
    LET a == i + Len(FailedAt)
        b == SkipDigits(s, a)
        c == b + Len(ParenOpen)
        d == SkipToken(s, c)
    IN  IF /\ StartsAt(s, FailedAt, i)
           /\ b > a
           /\ StartsAt(s, ParenOpen, b)
           /\ d > c
           /\ StartsAt(s, <<")">>, d)
        THEN [matched |-> TRUE, groups |-> <<SubSeq(s, c, d - 1)>>]
        ELSE NoMatch

\* /failed at position (\d+)/ tried at index i
PositionAt(s, i) ==
    LET a == i + Len(FailedAt)
        b == SkipDigits(s, a)
    IN  IF StartsAt(s, FailedAt, i) /\ b > a
        THEN [matched |-> TRUE, groups |-> <<SubSeq(s, a, b - 1)>>]
        ELSE NoMatch

\* (.+?)(?=\.|$) from a: the index of the last character the lazy group
\* takes, 0 when it cannot end; it takes characters up to the first one that
\* is followed by "." or by the end of the text, and none is a line terminator
LazyEnd(s, a) ==
    LET ends == {j \in a..Len(s) : j = Len(s) \/ s[j + 1] = "."}
    IN  IF ends = {} THEN 0
        ELSE IF \E k \in a..Least(ends) : s[k] \in LineTerminators THEN 0
        ELSE Least(ends)

\* ExceptionAt with the group written (.*?), which may take no character
ExceptionAtEmptyGroup(s, i) ==
    LET a == i + Len(ExceptionMarker)
        ends == {j \in (a - 1)..Len(s) : j = Len(s) \/ s[j + 1] = "."}
    IN  IF /\ StartsAt(s, ExceptionMarker, i)
           /\ ends # {}
           /\ \A k \in a..Least(ends) : s[k] \notin LineTerminators
        THEN [matched |-> TRUE, groups |-> <<SubSeq(s, a, Least(ends))>>]
        ELSE NoMatch

\* /DB::Exception: (.+?)(?=\.|$)/ tried at index i
ExceptionAt(s, i) ==
    LET a == i + Len(ExceptionMarker)
        e == LazyEnd(s, a)
    IN  IF StartsAt(s, ExceptionMarker, i) /\ e # 0
        THEN [matched |-> TRUE, groups |-> <<SubSeq(s, a, e)>>]
        ELSE NoMatch

\* String.prototype.match without the g flag: the match at the leftmost
\* index at which the expression matches
MatchLineCol(s) ==
    LET at == {i \in 1..Len(s) : LineColAt(s, i).matched}
    IN  IF at = {} THEN NoMatch ELSE LineColAt(s, Least(at))

MatchToken(s) ==
    LET at == {i \in 1..Len(s) : TokenAt(s, i).matched}
    IN  IF at = {} THEN NoMatch ELSE TokenAt(s, Least(at))

MatchPosition(s) ==
    LET at == {i \in 1..Len(s) : PositionAt(s, i).matched}
    IN  IF at = {} THEN NoMatch ELSE PositionAt(s, Least(at))

MatchException(s) ==
    LET at == {i \in 1..Len(s) : ExceptionAt(s, i).matched}
    IN  IF at = {} THEN NoMatch ELSE ExceptionAt(s, Least(at))

\* StripCode with an expression that lacks the trailing \s*
StripCodeKeepSpace(line) ==
    LET a == 1 + Len(CodePrefix)
        b == SkipDigits(line, a)
    IN  IF StartsAt(line, CodePrefix, 1) /\ b > a /\ StartsAt(line, <<".">>, b)
        THEN Drop(line, b + 1)
        ELSE line

\* line.replace(/^Code: \d+\.\s*/, '')
StripCode(line) ==
    LET a == 1 + Len(CodePrefix)
        b == SkipDigits(line, a)
    IN  IF StartsAt(line, CodePrefix, 1) /\ b > a /\ StartsAt(line, <<".">>, b)
        THEN Drop(line, SkipSpace(line, b + 1))
        ELSE line

\* parseClickHouseError probing the bare position before the token
parseClickHouseErrorPositionFirst(stderr) ==
    LET lineColMatch == MatchLineCol(stderr)
        tokenMatch == MatchToken(stderr)
        positionMatch == MatchPosition(stderr)
        exceptionMatch == MatchException(stderr)
        firstLine == StripCode(SplitNL(stderr)[1])
    IN  IF lineColMatch.matched /\ tokenMatch.matched
        THEN MsgAtLine \o lineColMatch.groups[1] \o MsgColumn \o lineColMatch.groups[2]
             \o MsgUnexpected \o tokenMatch.groups[1] \o <<"'">>
        ELSE IF positionMatch.matched
        THEN MsgPosition \o positionMatch.groups[1]
        ELSE IF tokenMatch.matched
        THEN MsgToken \o tokenMatch.groups[1] \o <<"'">>
        ELSE IF exceptionMatch.matched
        THEN exceptionMatch.groups[1]
        ELSE MsgFailed \o (IF firstLine # <<>> THEN firstLine ELSE MsgUnknown)

\* the cascade of five rules; the first that matches gives the message
parseClickHouseError(stderr) ==
    LET lineColMatch == MatchLineCol(stderr)
        tokenMatch == MatchToken(stderr)
        positionMatch == MatchPosition(stderr)
        exceptionMatch == MatchException(stderr)
        firstLine == StripCode(SplitNL(stderr)[1])
    IN  IF lineColMatch.matched /\ tokenMatch.matched
        THEN MsgAtLine \o lineColMatch.groups[1] \o MsgColumn \o lineColMatch.groups[2]
             \o MsgUnexpected \o tokenMatch.groups[1] \o <<"'">>
        ELSE IF tokenMatch.matched
        THEN MsgToken \o tokenMatch.groups[1] \o <<"'">>
        ELSE IF positionMatch.matched
        THEN MsgPosition \o positionMatch.groups[1]
        ELSE IF exceptionMatch.matched
        THEN exceptionMatch.groups[1]
        ELSE MsgFailed \o (IF firstLine # <<>> THEN firstLine ELSE MsgUnknown)

----------------------------------------------------------------------------
(* Documents and their trees *)

\* "xxxx\nxx"
TextA == Rep("x", 4) \o <<NL>> \o Rep("x", 2)

\* six rows; row 2 has 20 characters, row 5 has one
TextB == <<NL, NL>> \o Rep("x", 20) \o <<NL, NL, NL>> \o Rep("x", 1)

Node(sr, sc, er, ec) == [startRow |-> sr, startColumn |-> sc, endRow |-> er, endColumn |-> ec]

\* a document text with nodes of the tree the parser builds from that text
Fixtures ==
    { [text |-> TextA,
       nodes |-> {Node(0, 0, 0, 2), Node(0, 2, 0, 4), Node(0, 2, 1, 1), Node(1, 0, 1, 2)}],
      [text |-> TextB,
       nodes |-> {Node(2, 4, 5, 1), Node(2, 4, 2, 9)}] }

\* nodes whose positions do not belong to the text (a tree of some other text)
RawFixtures ==
    { [text |-> TextA,
       nodes |-> {Node(0, 0, 0, 2), Node(0, 5, 1, 1), Node(2, 0, 3, 1), Node(1, 0, 1, 2)}] }

\* "xx\rxxx": two lines separated by a lone carriage return
TextC == Rep("x", 2) \o <<"\r">> \o Rep("x", 3)

\* the documents formatting requests are made on
FormatFixtures ==
    { [text |-> TextA, nodes |-> {}],
      [text |-> TextC, nodes |-> {}] }

\* the capture names the highlights query uses
CaptureNames == {"keyword", "type.builtin", "type", "keyword.control", "constructor"}

CapturesOf(nodes) ==
    { Capture(nm, n.startRow, n.startColumn, n.endRow, n.endColumn) :
        nm \in CaptureNames, n \in nodes }

NoDocument == [open |-> FALSE, text |-> <<>>, nodes |-> {}, captures |-> <<>>]

\* what the environment gave a request: handles ready, tree, query file, query
NoInputs == [ready |-> FALSE, treeOk |-> FALSE, readable |-> FALSE, compiles |-> FALSE]

NoRequest ==
    [cause |-> "none", inputs |-> NoInputs, threw |-> FALSE,
     tokens |-> <<>>, sorted |-> <<>>, data |-> <<>>]

\* the document is opened or replaced; its tree yields no capture yet
DidOpen(fixtures) ==
    /\ \E fx \in fixtures :
          document' = [open |-> TRUE, text |-> fx.text, nodes |-> fx.nodes, captures |-> <<>>]
    /\ hl' = NoRequest
    /\ UNCHANGED <<initVars, failedBefore, fmt, configVars>>

\* the document is edited: the query yields one more capture on its tree
DidChange ==
    /\ document.open
    /\ Len(document.captures) < MaxCaptures
    /\ \E cap \in CapturesOf(document.nodes) :
          document' = [document EXCEPT !.captures = Append(@, cap)]
    /\ hl' = NoRequest
    /\ UNCHANGED <<initVars, failedBefore, fmt, configVars>>

----------------------------------------------------------------------------
(* The highlight request *)

\* ReturnCause without the return in the query constructor's catch block
ReturnCauseCompileIgnored(treeOk, readable, compiles) ==
    IF ~document.open THEN "nodoc"
    ELSE IF ~parser \/ ~clickhouseLanguage THEN "noparser"
    ELSE IF ~treeOk THEN "notree"
    ELSE IF ~readable THEN "unreadable"
    ELSE ""

\* ReturnCause with a guard that tests the parser only
ReturnCauseParserOnly(treeOk, readable, compiles) ==
    IF ~document.open THEN "nodoc"
    ELSE IF ~parser THEN "noparser"
    ELSE IF ~treeOk THEN "notree"
    ELSE IF ~readable THEN "unreadable"
    ELSE IF ~compiles THEN "nocompile"
    ELSE ""

\* the early return the handler takes, "" when it runs the whole pipeline
ReturnCause(treeOk, readable, compiles) ==
    IF ~document.open THEN "nodoc"
    ELSE IF ~parser \/ ~clickhouseLanguage THEN "noparser"
    ELSE IF ~treeOk THEN "notree"
    ELSE IF ~readable THEN "unreadable"
    ELSE IF ~compiles THEN "nocompile"
    ELSE ""

\* getSemanticTokens past its early returns, on a tree yielding the captures caps
getSemanticTokens(text, caps) ==
    LET thrown == FirstThrow(text, caps)
        tokens == ExtractTokens(text, caps)
        sorted == SortTokens(tokens)
    IN  IF thrown # 0
        THEN [cause |-> "", inputs |-> NoInputs, threw |-> TRUE,
              tokens |-> ExtractTokens(text, SubSeq(caps, 1, thrown - 1)),
              sorted |-> <<>>, data |-> <<>>]
        ELSE [cause |-> "", inputs |-> NoInputs, threw |-> FALSE,
              tokens |-> tokens, sorted |-> sorted, data |-> EncodeTokens(sorted)]

\* SemanticTokensFull creating the parser itself when it finds none
SemanticTokensFullLazyInit ==
    /\ \E parsed, readable, compiles \in BOOLEAN :
          LET ready == parser /\ clickhouseLanguage
              treeOk == parsed /\ (ready => languageSet)
              cause == ReturnCause(treeOk, readable, compiles)
              inputs == [ready |-> ready, treeOk |-> treeOk,
                         readable |-> readable, compiles |-> compiles]
              result == IF cause # "" THEN [NoRequest EXCEPT !.cause = cause]
                        ELSE getSemanticTokens(document.text, document.captures)
          IN  hl' = [result EXCEPT !.inputs = inputs]
    /\ failedBefore' = (failedBefore \/ hl.cause \notin {"none", ""})
    /\ parser' = TRUE
    /\ UNCHANGED <<clickhouseLanguage, languageSet, initPc, document, fmt, configVars>>

\* textDocument/semanticTokens/full: an early return, or the pipeline;
\* parser.parse gives no tree when the parser has no language
SemanticTokensFull ==
    /\ \E parsed, readable, compiles \in BOOLEAN :
          LET ready == parser /\ clickhouseLanguage
              treeOk == parsed /\ (ready => languageSet)
              cause == ReturnCause(treeOk, readable, compiles)
              inputs == [ready |-> ready, treeOk |-> treeOk,
                         readable |-> readable, compiles |-> compiles]
              result == IF cause # "" THEN [NoRequest EXCEPT !.cause = cause]
                        ELSE getSemanticTokens(document.text, document.captures)
          IN  hl' = [result EXCEPT !.inputs = inputs]
    /\ failedBefore' = (failedBefore \/ hl.cause \notin {"none", ""})
    /\ UNCHANGED <<initVars, document, fmt, configVars>>

----------------------------------------------------------------------------
(* Session negotiation: onInitialize *)

\* a path that is null, or an option that is absent
NullPath == ""

\* 'clickhouse-format', looked up on PATH
DefaultFormatPath == "clickhouse-format"

\* params.initializationOptions: none (stdio mode), the three paths of the
\* editor extension, or the formatter path alone
InitOptions ==
    { [wasmPath |-> NullPath, highlightsPath |-> NullPath, clickhouseFormatPath |-> NullPath],
      [wasmPath |-> "/ext/parsers/tree-sitter-clickhouse.wasm",
       highlightsPath |-> "/ext/queries/highlights.scm",
       clickhouseFormatPath |-> "/usr/local/bin/clickhouse-format"],
      [wasmPath |-> NullPath, highlightsPath |-> NullPath,
       clickhouseFormatPath |-> "/usr/local/bin/clickhouse-format"] }

\* no legend has been advertised yet
NoLegend == [tokenTypes |-> <<>>, tokenModifiers |-> <<>>, full |-> FALSE]

\* the session has been negotiated
Initialized == legend # NoLegend

\* onInitialize: the paths given as options are kept and the capabilities,
\* with the legend, are returned
OnInitialize ==
    /\ ~Initialized
    /\ \E initOptions \in InitOptions :
          /\ wasmPath' = IF initOptions.wasmPath # NullPath
                          THEN initOptions.wasmPath ELSE wasmPath
          /\ highlightsPath' = IF initOptions.highlightsPath # NullPath
                                THEN initOptions.highlightsPath ELSE highlightsPath
          /\ clickhouseFormatPath' = IF initOptions.clickhouseFormatPath # NullPath
                                      THEN initOptions.clickhouseFormatPath
                                      ELSE clickhouseFormatPath
    /\ legend' = [tokenTypes |-> tokenTypes, tokenModifiers |-> tokenModifiers, full |-> TRUE]
    /\ UNCHANGED <<initVars, hlVars, fmt>>

----------------------------------------------------------------------------
(* Parser initialisation: onInitialized *)

\* the handler starts and suspends at await Parser.init()
InitStart ==
    /\ initPc = "idle"
    /\ initPc' = "awaitInit"
    /\ UNCHANGED <<parser, clickhouseLanguage, languageSet, hlVars, fmt, configVars>>

\* Parser.init() settles; on success the parser is created and the grammar
\* file is looked up, then the handler suspends at await Language.load()
InitParserSettled ==
    /\ initPc = "awaitInit"
    /\ \E ok, wasmExists \in BOOLEAN :
          IF ~ok THEN /\ initPc' = "done"
                      /\ UNCHANGED parser
          ELSE /\ parser' = TRUE
               /\ initPc' = IF wasmExists THEN "awaitLoad" ELSE "done"
    /\ UNCHANGED <<clickhouseLanguage, languageSet, hlVars, fmt, configVars>>

\* Language.load() settles; on success clickhouseLanguage is assigned and
\* parser.setLanguage is called without suspension.  setLanguage throws for a
\* grammar whose ABI version the library does not support ("Incompatible
\* language version"): the catch block logs it and the assignment stays.
InitLanguageSettled ==
    /\ initPc = "awaitLoad"
    /\ \E ok, compatible \in BOOLEAN :
          IF ok THEN /\ clickhouseLanguage' = TRUE
                     /\ languageSet' = compatible
               ELSE UNCHANGED <<clickhouseLanguage, languageSet>>
    /\ initPc' = "done"
    /\ UNCHANGED <<parser, hlVars, fmt, configVars>>

----------------------------------------------------------------------------
(* The formatter: formatDocument *)

\* the exit code of a process ended by a signal (null)
NullCode == -1

\* the exit code reported after a failed launch (the negated errno of ENOENT)
SpawnFailedCode == -2

\* the codes a 'close' event of a launched process carries
ExitCodes == {0, 62, NullCode}

MsgNotFound ==
    <<"c", "l", "i", "c", "k", "h", "o", "u", "s", "e", "-", "f", "o", "r",
      "m", "a", "t", " ", "n", "o", "t", " ", "f", "o", "u", "n", "d", ".",
      " ", "P", "l", "e", "a", "s", "e", " ", "i", "n", "s", "t", "a", "l",
      "l", " ", "C", "l", "i", "c", "k", "H", "o", "u", "s", "e", " ", "o",
      "r", " ", "c", "o", "n", "f", "i", "g", "u", "r", "e", " ", "t", "h",
      "e", " ", "b", "i", "n", "a", "r", "y", " ", "p", "a", "t", "h", " ",
      "i", "n", " ", "s", "e", "t", "t", "i", "n", "g", "s", ".">>

MsgFailedToRun ==
    <<"F", "a", "i", "l", "e", "d", " ", "t", "o", " ", "r", "u", "n", " ",
      "c", "l", "i", "c", "k", "h", "o", "u", "s", "e", "-", "f", "o", "r",
      "m", "a", "t", ":", " ">>

\* the message of an error of the child other than ENOENT
ErrPermission ==
    <<"s", "p", "a", "w", "n", " ", "E", "A", "C", "C", "E", "S">>

\* the stderr of the formatter on a syntax error with token and locator
StderrSyntax ==
    <<"C", "o", "d", "e", ":", " ", "6", "2", ".", " ", "D", "B", ":", ":",
      "E", "x", "c", "e", "p", "t", "i", "o", "n", ":", " ", "S", "y", "n",
      "t", "a", "x", " ", "e", "r", "r", "o", "r", " ", "(", "q", "u", "e",
      "r", "y", ")", ":", " ", "f", "a", "i", "l", "e", "d", " ", "a", "t",
      " ", "p", "o", "s", "i", "t", "i", "o", "n", " ", "3", "8", " ", "(",
      "c", "r", "e", "a", "t", "e", "d", ")", " ", "(", "l", "i", "n", "e",
      " ", "3", ",", " ", "c", "o", "l", " ", "5", ")", ":", " ", "c", "r",
      "e", "a", "t", "e", "d", " ", "D", "a", "t", "e", "T", "i", "m", "e">>

StderrCoded ==
    <<"C", "o", "d", "e", ":", " ", "1", "1", "7", ".", " ", "S", "o", "m",
      "e", "t", "h", "i", "n", "g", " ", "b", "r", "o", "k", "e">>

\* the pieces stderr arrives in
StderrChunks ==
    { StderrSyntax,
      StderrCoded,
      ExceptionMarker,
      <<"f", "a", "i", "l", "e", "d", " ", "a", "t", " ", "p", "o", "s",
        "i", "t", "i", "o", "n", " ", "3", "8">>,
      <<" ", "(", "c", "r", "e", "a", "t", "e", "d", ")">>,
      <<" ", "(", "l", "i", "n", "e", " ", "3", ",", " ", "c", "o", "l",
        " ", "5", ")">>,
      <<"B", "a", "d", " ", "q", "u", "e", "r", "y">>,
      <<" ", "(", "'", "a", NL, "b", "'", ")">>,
      <<NL>> }

\* the pieces stdout arrives in
StdoutChunks ==
    { <<"S", "E", "L", "E", "C", "T", " ", "1">> \o <<NL>>,
      <<"F", "R", "O", "M", " ", "t">> \o <<NL>> }

NoFormat ==
    [pc |-> "idle", resolved |-> FALSE, text |-> <<>>, stdout |-> <<>>, stderr |-> <<>>,
     chunks |-> 0, code |-> 0, shown |-> <<>>, edits |-> <<>>, received |-> <<>>,
     threw |-> FALSE]

\* TextDocument.lineCount: one more than the number of line breaks
lineCount(text) ==
    1 + Cardinality({i \in 1..Len(text) :
            \/ text[i] = NL
            \/ text[i] = "\r" /\ ~(i < Len(text) /\ text[i + 1] = NL)})

\* the edit that replaces the whole document by the formatter's output
FullEdit(text, stdout) ==
    LET lastLine == lineCount(text) - 1
        lines == SplitNL(text)
        lastChar == IF lastLine + 1 <= Len(lines) THEN Len(lines[lastLine + 1]) ELSE 0
    IN  [startLine |-> 0, startChar |-> 0, endLine |-> lastLine, endChar |-> lastChar,
         newText |-> stdout]

\* onDocumentFormatting: no edits for an unknown document, else the formatter
\* is launched and the document text written to its input.  spawn returns a
\* child without stdout, stderr and stdin when the launch fails for another
\* reason than a missing file (EACCES, EAGAIN, EMFILE, ENFILE): process.stdout.on
\* then throws a TypeError inside the promise executor, before any handler
\* of the child is registered, and the promise is rejected.
DocumentFormatting ==
    /\ fmt.pc \notin {"running", "failed", "killed"}
    /\ \E piped \in BOOLEAN :
          fmt' = IF ~document.open
                 THEN [NoFormat EXCEPT !.pc = "closed", !.resolved = TRUE]
                 ELSE IF piped
                 THEN [NoFormat EXCEPT !.pc = "running", !.text = document.text]
                 ELSE [NoFormat EXCEPT !.pc = "rejected", !.text = document.text,
                                       !.threw = TRUE]
    /\ UNCHANGED <<initVars, hlVars, configVars>>

\* process.stdout.on('data')
StdoutData ==
    /\ fmt.pc = "running"
    /\ fmt.chunks < MaxChunks
    /\ \E data \in StdoutChunks :
          fmt' = [fmt EXCEPT !.stdout = @ \o data, !.chunks = @ + 1,
                             !.received = Append(@, data)]
    /\ UNCHANGED <<initVars, hlVars, configVars>>

\* process.stderr.on('data')
StderrData ==
    /\ fmt.pc = "running"
    /\ fmt.chunks < MaxChunks
    /\ \E data \in StderrChunks :
          fmt' = [fmt EXCEPT !.stderr = @ \o data, !.chunks = @ + 1]
    /\ UNCHANGED <<initVars, hlVars, configVars>>

\* process.on('error'): the launch failed; a 'close' event follows it
ProcessError ==
    /\ fmt.pc = "running"
    /\ fmt.chunks = 0
    /\ \E enoent \in BOOLEAN :
          fmt' = [fmt EXCEPT !.pc = "failed",
                             !.shown = Append(@, IF enoent THEN MsgNotFound
                                                 ELSE MsgFailedToRun \o ErrPermission),
                             !.resolved = TRUE]
    /\ UNCHANGED <<initVars, hlVars, configVars>>

\* spawn without the timeout option: no timer, the process is left alone
TimeoutIgnored ==
    /\ fmt.pc = "running"
    /\ UNCHANGED vars

\* the timer of spawn's timeout option expires: the process is sent SIGTERM
TimeoutKill ==
    /\ fmt.pc = "running"
    /\ fmt' = [fmt EXCEPT !.pc = "killed"]
    /\ UNCHANGED <<initVars, hlVars, configVars>>

\* process.on('close'); a promise keeps the value of its first resolve
ProcessClose ==
    /\ fmt.pc \in {"running", "failed", "killed"}
    /\ \E code \in (IF fmt.pc = "failed" THEN {SpawnFailedCode}
                    ELSE IF fmt.pc = "killed" THEN {NullCode}
                    ELSE ExitCodes) :
          fmt' = IF code # 0
                 THEN [fmt EXCEPT !.pc = "closed", !.code = code,
                                  !.shown = Append(@, parseClickHouseError(fmt.stderr)),
                                  !.resolved = TRUE]
                 ELSE [fmt EXCEPT !.pc = "closed", !.code = code,
                                  !.edits = <<FullEdit(fmt.text, fmt.stdout)>>,
                                  !.resolved = TRUE]
    /\ UNCHANGED <<initVars, hlVars, configVars>>

----------------------------------------------------------------------------
(* Properties of the token pipeline *)

\* the last highlight request ran the whole pipeline and returned a buffer
Answered == hl.cause = "" /\ ~hl.threw

Tuple(t) == <<t.line, t.char, t.length, t.tokenType>>

\* sequential decoding of a buffer, from the previous line and column
RECURSIVE DecodeFrom(_, _, _)
DecodeFrom(data, prevLine, prevColumn) ==
    IF Len(data) < 5 THEN <<>>
    ELSE LET line == prevLine + data[1]
             column == IF data[1] = 0 THEN prevColumn + data[2] ELSE data[2]
         IN  <<(<<line, column, data[3], data[4]>>)>>
             \o DecodeFrom(Drop(data, 6), line, column)

\* C1: decoding the returned buffer sequentially gives back the sorted token
\* list: the same (line, column, length, tokenType) tuples, in the same order
\* and in the same number.
C1_RoundTrip ==
    Answered =>
        /\ Len(hl.data) = 5 * Len(hl.sorted)
        /\ DecodeFrom(hl.data, 0, 0) = [i \in 1..Len(hl.sorted) |-> Tuple(hl.sorted[i])]

\* two tokens on one line at different columns: the second is column-relative
C1_Witness ==
    /\ Answered
    /\ Len(hl.sorted) = 2
    /\ hl.sorted[1].line = hl.sorted[2].line
    /\ hl.sorted[1].char < hl.sorted[2].char
    /\ hl.data[6] = 0
    /\ hl.data[7] > 0

\* C2: in every returned buffer each token's line delta is >= 0 and, when the
\* line delta is 0, its column value is >= 0, also for captures that start at
\* the same position.
C2_DeltaInvariant ==
    Answered =>
        \A k \in 0..(Len(hl.data) \div 5 - 1) :
            /\ hl.data[5 * k + 1] >= 0
            /\ hl.data[5 * k + 1] = 0 => hl.data[5 * k + 2] >= 0

\* captures on one line given in descending column order, and a tie
C2_Witness ==
    /\ Answered
    /\ Len(document.captures) = 2
    /\ Len(hl.data) = 10
    /\ document.captures[1].startRow = document.captures[2].startRow
    /\ document.captures[1].startColumn > document.captures[2].startColumn
    /\ hl.data[6] = 0

\* C3: a capture whose name is not a key of the table contributes no token, so
\* the token count equals the number of captures named by a key: it is at most
\* the capture count, with equality exactly when every name is a key.
C3_UnknownNamesDropped ==
    Answered =>
        LET caps == document.captures
            keyed == {i \in 1..Len(caps) : caps[i].name \in TableKeys}
        IN  /\ Len(hl.tokens) = Cardinality(keyed)
            /\ Len(hl.tokens) <= Len(caps)
            /\ (Len(hl.tokens) = Len(caps)) <=> (\A i \in 1..Len(caps) : caps[i].name \in TableKeys)

\* how often x occurs in the sequence s
Count(s, x) == Cardinality({i \in 1..Len(s) : s[i] = x})

\* C4: the list handed to the encoder is ordered by line, then by column, and
\* is a permutation of the extracted tokens.
C4_Ordered ==
    Answered =>
        /\ \A i \in 1..(Len(hl.sorted) - 1) :
              \/ hl.sorted[i].line < hl.sorted[i + 1].line
              \/ /\ hl.sorted[i].line = hl.sorted[i + 1].line
                 /\ hl.sorted[i].char <= hl.sorted[i + 1].char
        /\ Len(hl.sorted) = Len(hl.tokens)
        /\ \A i \in 1..Len(hl.tokens) :
              Count(hl.sorted, hl.tokens[i]) = Count(hl.tokens, hl.tokens[i])

\* the captures arrived out of order: same line, columns descending
C4_Witness ==
    /\ Answered
    /\ Len(hl.tokens) = 2
    /\ hl.tokens[1].line = hl.tokens[2].line
    /\ hl.tokens[1].char > hl.tokens[2].char
    /\ hl.sorted # hl.tokens

\* the number of characters of row r of a text: the characters other than the
\* line break that have exactly r line breaks before them
LineLength(text, r) ==
    Cardinality({i \in 1..Len(text) :
        /\ text[i] # NL
        /\ Cardinality({j \in 1..(i - 1) : text[j] = NL}) = r})

RowCount(text) == Cardinality({i \in 1..Len(text) : text[i] = NL}) + 1

KeyedCapture(cap) == cap.name \in TableKeys

IndexedToken(t) == t.tokenType \in 0..8

\* C5: every capture named by a key yields exactly one token, on its start row
\* at its start column; on one row its length is endColumn - startColumn, over
\* several rows it is the length of the start row's line minus startColumn.
\* Start (2,4), end (5,1) over a row 2 of 20 characters gives (2, 4, 16).
C5_SpanNormalised ==
    Answered =>
        LET caps == SelectSeq(document.captures, KeyedCapture)
            toks == SelectSeq(hl.tokens, IndexedToken)
        IN  /\ Len(toks) = Len(caps)
            /\ \A i \in 1..Len(caps) :
                  /\ toks[i].line = caps[i].startRow
                  /\ toks[i].char = caps[i].startColumn
                  /\ toks[i].length =
                        IF caps[i].startRow = caps[i].endRow
                        THEN caps[i].endColumn - caps[i].startColumn
                        ELSE LineLength(document.text, caps[i].startRow) - caps[i].startColumn
            /\ (document.captures = <<Capture("keyword", 2, 4, 5, 1)>> /\ document.text = TextB)
                  => hl.tokens = <<Token(2, 4, 16, 0)>>

\* the span from (2,4) to (5,1) has been normalised
C5_Witness ==
    /\ Answered
    /\ document.text = TextB
    /\ document.captures = <<Capture("keyword", 2, 4, 5, 1)>>
    /\ Len(hl.tokens) = 1

C7_FailureReturnsEmpty ==
    LET in == hl.inputs
        failure == ~in.ready \/ ~in.treeOk \/ ~in.readable \/ ~in.compiles
    IN  hl.cause # "none" =>
            /\ failure => (hl.data = <<>> /\ hl.tokens = <<>> /\ ~hl.threw /\ hl.cause # "")
            /\ (~failure /\ document.open) => hl.cause = ""

\* a request succeeds with tokens after an earlier request failed
C7_Witness ==
    /\ failedBefore
    /\ Answered
    /\ Len(hl.data) > 0

\* a step in which a highlight request is answered
RequestStep ==
    /\ hl'.cause # "none"
    /\ <<hl, failedBefore>>' # <<hl, failedBefore>>

\* C17: a highlight request made before initialisation has completed (before
\* Parser.init settles, while Language.load is pending, after the early
\* return for a missing grammar file or after a failed initialisation) is
\* answered at once with the empty buffer: it does not throw and does not
\* move the initialisation handler.
C17_EmptyBeforeReady ==
    [][(RequestStep /\ ~(parser /\ clickhouseLanguage /\ languageSet)) =>
          /\ hl'.cause \in {"nodoc", "noparser", "notree"}
          /\ hl'.data = <<>> /\ hl'.tokens = <<>> /\ ~hl'.threw
          /\ initPc' = initPc]_vars

\* a request on a document with captures was answered with the empty buffer
\* while the parser exists and the grammar is still loading
C17_Witness ==
    /\ initPc = "awaitLoad" /\ parser /\ ~clickhouseLanguage
    /\ hl.cause = "noparser" /\ hl.data = <<>>
    /\ hl.inputs.treeOk /\ hl.inputs.readable /\ hl.inputs.compiles
    /\ document.open /\ Len(document.captures) > 0

----------------------------------------------------------------------------
(* Properties of the error normaliser *)

\* the formatter closed with a nonzero code and its stderr was normalised
Normalised == fmt.pc = "closed" /\ fmt.code \notin {0, SpawnFailedCode}

\* the message shown last
Shown == fmt.shown[Len(fmt.shown)]

IsNumber(t) == Len(t) >= 1 /\ \A k \in 1..Len(t) : t[k] \in Digits

Piece(s, i, n) == SubSeq(s, i, i + n - 1)

\* the lengths n for which the n characters of s from index i are a number
NumberLengths(s, i) == {n \in 1..(Len(s) - i + 1) : IsNumber(Piece(s, i, n))}

\* the <<L, C>> with "(line L, col C)" at index i of s, L and C numbers
LocatorsAt(s, i) ==
    IF ~StartsAt(s, LineOpen, i) THEN {}
    ELSE UNION { { <<Piece(s, i + 6, a), Piece(s, i + 12 + a, b)>> :
                     b \in { n \in NumberLengths(s, i + 12 + a) :
                               StartsAt(s, <<")">>, i + 12 + a + n) } } :
                 a \in { n \in NumberLengths(s, i + 6) : StartsAt(s, ColSep, i + 6 + n) } }

\* the tokens t with "failed at position N (t)" at index i of s, N a number,
\* t not empty and free of ")"
TokensAt(s, i) ==
    IF ~StartsAt(s, FailedAt, i) THEN {}
    ELSE UNION { { Piece(s, i + 21 + a, b) :
                     b \in { n \in 1..(Len(s) - i - 21 - a) :
                               /\ s[i + 21 + a + n] = ")"
                               /\ \A k \in 0..(n - 1) : s[i + 21 + a + k] # ")" } } :
                 a \in { n \in NumberLengths(s, i + 19) : StartsAt(s, ParenOpen, i + 19 + n) } }

\* the whole numbers N with "failed at position N" at index i of s
PositionsAt(s, i) ==
    IF ~StartsAt(s, FailedAt, i) THEN {}
    ELSE { Piece(s, i + 19, a) :
             a \in { n \in NumberLengths(s, i + 19) :
                       (i + 19 + n <= Len(s)) => s[i + 19 + n] \notin Digits } }

Occurrences(s, At(_, _)) == {i \in 1..Len(s) : At(s, i) # {}}

\* the one element of a singleton set
The(S) == CHOOSE x \in S : TRUE

MsgExample ==
    <<"S", "y", "n", "t", "a", "x", " ", "e", "r", "r", "o", "r", " ", "a",
      "t", " ", "l", "i", "n", "e", " ", "3", ",", " ", "c", "o", "l", "u",
      "m", "n", " ", "5", ":", " ", "u", "n", "e", "x", "p", "e", "c", "t",
      "e", "d", " ", "'", "c", "r", "e", "a", "t", "e", "d", "'">>

\* C8: the first rule that matches decides the message.  Locator and token
\* marker both present: "Syntax error at line L, column C: unexpected 'token'";
\* else the token marker: "Syntax error: unexpected 'token'"; else the bare
\* position: "Syntax error at position N".  L, C, token and N are those of the
\* leftmost occurrence.  The sample syntax error gives line 3, column 5,
\* unexpected 'created'.
C8_CascadePriority ==
    Normalised =>
        LET s == fmt.stderr
            locs == Occurrences(s, LocatorsAt)
            toks == Occurrences(s, TokensAt)
            poss == Occurrences(s, PositionsAt)
        IN  /\ (locs # {} /\ toks # {}) =>
                  LET lc == The(LocatorsAt(s, Least(locs)))
                  IN  Shown = MsgAtLine \o lc[1] \o MsgColumn \o lc[2] \o MsgUnexpected
                              \o The(TokensAt(s, Least(toks))) \o <<"'">>
            /\ (locs = {} /\ toks # {}) =>
                  Shown = MsgToken \o The(TokensAt(s, Least(toks))) \o <<"'">>
            /\ (toks = {} /\ poss # {}) =>
                  Shown = MsgPosition \o The(PositionsAt(s, Least(poss)))
            /\ s = StderrSyntax => Shown = MsgExample

\* the sample syntax error has been normalised
C8_Witness == Normalised /\ fmt.stderr = StderrSyntax

\* a token marker without a locator has been normalised
C8_WitnessToken ==
    /\ Normalised
    /\ Occurrences(fmt.stderr, LocatorsAt) = {}
    /\ Occurrences(fmt.stderr, TokensAt) # {}

\* the indices of s at which the exception marker is followed by a character
\* of the same line
MarkedMessages(s) ==
    {i \in 1..Len(s) :
        /\ StartsAt(s, ExceptionMarker, i)
        /\ i + 15 <= Len(s)
        /\ s[i + 15] \notin LineTerminators}

\* C9: when rules 1-3 do not match and the exception marker is present with a
\* message behind it, the message shown is text that follows the marker, not
\* the "Formatting failed: ..." form of rule 5.
C9_ExceptionMessage ==
    Normalised =>
        LET s == fmt.stderr
        IN  (/\ Occurrences(s, TokensAt) = {}
             /\ Occurrences(s, PositionsAt) = {}
             /\ MarkedMessages(s) # {})
            => /\ ~StartsAt(Shown, MsgFailed, 1)
               /\ \E i \in MarkedMessages(s) : StartsAt(s, Shown, i + 15)

\* the text of s before its first line break
FirstLine(s) ==
    LET breaks == {i \in 1..Len(s) : s[i] = NL}
    IN  IF breaks = {} THEN s ELSE SubSeq(s, 1, Least(breaks) - 1)

\* the texts left of a line that is "Code: " N "." W rest, N a number, W white
\* space and rest not starting with white space
AfterCode(line) ==
    IF ~StartsAt(line, CodePrefix, 1) THEN {}
    ELSE UNION { { Drop(line, 8 + a + w) :
                     w \in { n \in 0..(Len(line) - 7 - a) :
                               /\ \A k \in 1..n : line[7 + a + k] \in WhiteSpace
                               /\ (8 + a + n <= Len(line)) => line[8 + a + n] \notin WhiteSpace } } :
                 a \in { n \in NumberLengths(line, 7) : StartsAt(line, <<".">>, 7 + n) } }

\* s holds neither locator, token marker, position nor exception marker
Unmarked(s) ==
    /\ Occurrences(s, LocatorsAt) = {}
    /\ Occurrences(s, TokensAt) = {}
    /\ Occurrences(s, PositionsAt) = {}
    /\ \A i \in 1..Len(s) : ~StartsAt(s, ExceptionMarker, i)

MsgBroke ==
    <<"F", "o", "r", "m", "a", "t", "t", "i", "n", "g", " ", "f", "a", "i",
      "l", "e", "d", ":", " ", "S", "o", "m", "e", "t", "h", "i", "n", "g",
      " ", "b", "r", "o", "k", "e">>

MsgFallback ==
    <<"F", "o", "r", "m", "a", "t", "t", "i", "n", "g", " ", "f", "a", "i",
      "l", "e", "d", ":", " ", "U", "n", "k", "n", "o", "w", "n", " ", "e",
      "r", "r", "o", "r">>

\* C10: with no locator, token marker, position or exception marker, the
\* message is "Formatting failed: " and the text before the first line break
\* without its leading "Code: <digits>." and the white space after it, or
\* "Unknown error" when nothing is left, as for the empty text.
\* "Code: 117. Something broke" gives "Formatting failed: Something broke".
C10_Fallback ==
    Normalised =>
        LET s == fmt.stderr
            line == FirstLine(s)
            rest == IF AfterCode(line) = {} THEN line ELSE The(AfterCode(line))
        IN  /\ Unmarked(s) =>
                  Shown = MsgFailed \o (IF rest = <<>> THEN MsgUnknown ELSE rest)
            /\ s = StderrCoded => Shown = MsgBroke
            /\ s = <<>> => Shown = MsgFallback

\* the coded sample has been normalised by the fallback rule
C10_Witness == Normalised /\ fmt.stderr = StderrCoded /\ Unmarked(fmt.stderr)

\* C11: the normaliser is total: whatever stderr holds, the empty text and
\* text without any recognisable pattern included, the message it returns
\* has at least one character, and the request is resolved after it.
C11_Total ==
    Normalised => (Len(Shown) >= 1 /\ fmt.resolved)

\* the formatter failed without writing anything: rule 5 with its fallback
C11_Witness ==
    /\ Normalised
    /\ fmt.stderr = <<>>
    /\ Shown = MsgFailed \o MsgUnknown

\* C12: the message the normaliser returns is a single line: whatever stderr
\* holds, several lines or a parenthesised token that spans a line break
\* included, the message contains no newline character.
C12_SingleLine ==
    Normalised => \A i \in 1..Len(Shown) : Shown[i] # NL

----------------------------------------------------------------------------
(* Properties of the formatting request *)

\* the formatter was launched and its 'close' event carried the code 0
Succeeded == fmt.pc = "closed" /\ fmt.code = 0 /\ fmt.text # <<>>

\* the indices at which a line break of the text ends (LF, CR or CR LF)
BreakEnds(text) ==
    {i \in 1..Len(text) :
        \/ text[i] = NL
        \/ text[i] = "\r" /\ (i = Len(text) \/ text[i + 1] # NL)}

\* the position just after the last character of the text
EndOfText(text) ==
    LET ends == BreakEnds(text)
        last == IF ends = {} THEN 0 ELSE CHOOSE i \in ends : \A j \in ends : j <= i
    IN  [line |-> Cardinality(ends), character |-> Len(text) - last]

RECURSIVE Concat(_)
Concat(chunks) ==
    IF chunks = <<>> THEN <<>> ELSE Head(chunks) \o Concat(Tail(chunks))

\* C13: when the formatter closes with the code 0 the request resolves to
\* exactly one edit, from (0,0) to the end of the last line of the document,
\* whose new text is the stdout chunks concatenated in their order of
\* arrival; no message is shown, whatever stderr holds.
C13_SuccessEdit ==
    Succeeded =>
        /\ fmt.resolved
        /\ Len(fmt.edits) = 1
        /\ fmt.edits[1].startLine = 0 /\ fmt.edits[1].startChar = 0
        /\ fmt.edits[1].endLine = EndOfText(fmt.text).line
        /\ fmt.edits[1].endChar = EndOfText(fmt.text).character
        /\ fmt.edits[1].newText = Concat(fmt.received)
        /\ fmt.shown = <<>>

\* the launch failed because the binary is missing
NotFound ==
    /\ \/ fmt.pc = "failed"
       \/ fmt.pc = "closed" /\ fmt.code = SpawnFailedCode
    /\ fmt.shown # <<>>
    /\ fmt.shown[1] = MsgNotFound

\* C14: a formatter that closes with a nonzero code resolves the request to
\* no edits and the message shown is the normalised stderr; a formatter that
\* cannot be launched because the binary is missing resolves it to no edits
\* and the message shown is the 'not found' message, not a normalised one.
C14_FailureOutcomes ==
    /\ Normalised =>
            /\ fmt.resolved /\ fmt.edits = <<>>
            /\ fmt.shown = <<parseClickHouseError(fmt.stderr)>>
    /\ NotFound =>
            /\ fmt.resolved /\ fmt.edits = <<>>
            /\ fmt.shown = <<MsgNotFound>>

\* C15: whatever the order of the events of the child process ('error'
\* followed by 'close' with a nonzero or null code, or either alone), at most
\* one message is shown for a request, and it is not the raw stderr.
C15_SingleMessage ==
    /\ Len(fmt.shown) <= 1
    /\ \A i \in 1..Len(fmt.shown) : fmt.shown[i] # fmt.stderr

\* C16: a formatter that does not exit is killed when the timer expires and
\* the request then resolves to no edits: a launched formatter never stays
\* running for ever, and a killed one leads to a resolved request with the
\* empty edit list.
C16_Timeout ==
    /\ (fmt.pc = "running") ~> (fmt.pc # "running")
    /\ (fmt.pc = "killed") ~>
           (fmt.pc = "closed" /\ fmt.code = NullCode /\ fmt.resolved /\ fmt.edits = <<>>)

\* the request of a formatter that was killed after it wrote output
C16_Witness ==
    /\ fmt.pc = "closed" /\ fmt.code = NullCode
    /\ fmt.stdout # <<>>
    /\ fmt.resolved /\ fmt.edits = <<>>

----------------------------------------------------------------------------
(* Properties of the session *)

\* a step of a formatting request: the request itself or an event of its child
FormatStep == fmt' # fmt

\* C18: parser and clickhouseLanguage are assigned at most once, by the
\* initialisation handler, and keep their value afterwards; no step of a
\* highlight request or of a formatting request, in any interleaving, writes
\* parser, clickhouseLanguage, wasmPath, highlightsPath or
\* clickhouseFormatPath.
C18_HandlesFrame ==
    [][/\ parser => parser'
       /\ clickhouseLanguage => clickhouseLanguage'
       /\ parser' # parser => initPc = "awaitInit"
       /\ clickhouseLanguage' # clickhouseLanguage => initPc = "awaitLoad"
       /\ (RequestStep \/ FormatStep) =>
              UNCHANGED <<parser, clickhouseLanguage, wasmPath, highlightsPath,
                          clickhouseFormatPath>>]_vars

\* both handles and the paths are set, a highlight request has returned
\* tokens and a formatting request has been resolved
C18_Witness ==
    /\ parser /\ clickhouseLanguage
    /\ wasmPath # NullPath /\ clickhouseFormatPath # DefaultFormatPath
    /\ Answered /\ Len(hl.data) > 0
    /\ fmt.pc = "closed" /\ fmt.text # <<>>

\* C21: initialisation is atomic for highlight requests: in no state between
\* two handler steps is clickhouseLanguage assigned while the parser has no
\* language, so a request that passed the guard on parser and
\* clickhouseLanguage ran with a parser whose language was set.
C21_InitAtomic ==
    /\ clickhouseLanguage => languageSet
    /\ (hl.cause # "none" /\ hl.inputs.ready) => languageSet

\* the formatting request ended without edits to apply
FormatFailed ==
    \/ fmt.pc \in {"failed", "rejected"}
    \/ fmt.pc = "closed" /\ (fmt.code # 0 \/ fmt.text = <<>>)

\* C20: no failure is fatal: whatever sequence of highlight and formatting
\* requests was made, a failed highlight request returned the empty buffer
\* and a failed formatting request resolved to the empty edit list, no
\* handler threw, and the next request of either kind can be made once the
\* child of the last one is gone.
C20_NoFatalFailure ==
    /\ ~hl.threw /\ ~fmt.threw
    /\ hl.cause \notin {"none", ""} => hl.data = <<>>
    /\ FormatFailed => (fmt.resolved /\ fmt.edits = <<>>)
    /\ ENABLED SemanticTokensFull
    /\ fmt.pc \in {"closed", "rejected"} => ENABLED DocumentFormatting

\* the legend of the protocol: nine token types, no modifiers
FixedLegend ==
    [tokenTypes |-> <<"keyword", "type", "string", "number", "comment",
                      "variable", "function", "operator", "punctuation">>,
     tokenModifiers |-> <<>>,
     full |-> TRUE]

\* the kind a capture name stands for
KindOf(name) ==
    CASE name \in {"type.builtin", "type"} -> "type"
      [] name \in {"punctuation.bracket", "punctuation.delimiter"} -> "punctuation"
      [] OTHER -> name

\* C19: the legend advertised at negotiation is the fixed list of nine token
\* types with no modifiers and stays so; every tokenType of a returned
\* buffer is an index 0..8 of it, the one whose name is the kind of the
\* token's capture name, and every modifier field is 0.
C19_LegendConsistent ==
    /\ Initialized => legend = FixedLegend
    /\ Answered =>
          LET caps == SelectSeq(document.captures, KeyedCapture)
          IN  /\ \A k \in 0..(Len(hl.data) \div 5 - 1) :
                    /\ hl.data[5 * k + 4] \in 0..8
                    /\ hl.data[5 * k + 5] = 0
              /\ Len(hl.tokens) = Len(caps)
              /\ \A i \in 1..Len(caps) :
                    /\ hl.tokens[i].tokenType \in 0..8
                    /\ FixedLegend.tokenTypes[hl.tokens[i].tokenType + 1] = KindOf(caps[i].name)

----------------------------------------------------------------------------
(* Specifications *)

Init ==
    /\ parser = FALSE
    /\ clickhouseLanguage = FALSE
    /\ languageSet = FALSE
    /\ initPc = "idle"
    /\ document = NoDocument
    /\ hl = NoRequest
    /\ failedBefore = FALSE
    /\ fmt = NoFormat
    /\ wasmPath = NullPath
    /\ highlightsPath = NullPath
    /\ clickhouseFormatPath = DefaultFormatPath
    /\ legend = NoLegend

Next ==
    \/ InitStart
    \/ InitParserSettled
    \/ InitLanguageSettled
    \/ DidOpen(Fixtures)
    \/ DidChange
    \/ SemanticTokensFull

Spec == Init /\ [][Next]_vars

\* the same server fed trees that do not belong to the document text
NextRaw ==
    \/ InitStart
    \/ InitParserSettled
    \/ InitLanguageSettled
    \/ DidOpen(RawFixtures)
    \/ DidChange
    \/ SemanticTokensFull

SpecRaw == Init /\ [][NextRaw]_vars

\* a document whose tree has one node
SessionFixtures == { [text |-> TextA, nodes |-> {Node(0, 0, 0, 2)}] }

\* a whole session: the negotiation, the initialisation handler, highlight
\* requests and formatting requests in any interleaving
NextSession ==
    \/ OnInitialize
    \/ InitStart
    \/ InitParserSettled
    \/ InitLanguageSettled
    \/ DidOpen(SessionFixtures)
    \/ DidChange
    \/ SemanticTokensFull
    \/ DocumentFormatting
    \/ ProcessError
    \/ TimeoutKill
    \/ ProcessClose

SpecSession == Init /\ [][NextSession]_vars

\* the formatter alone: documents are opened and formatted
NextFormat ==
    \/ DidOpen(FormatFixtures)
    \/ DocumentFormatting
    \/ StdoutData
    \/ StderrData
    \/ ProcessError
    \/ TimeoutKill
    \/ ProcessClose

SpecFormat == Init /\ [][NextFormat]_vars

\* a formatter that writes its output, or part of it, and may not exit
NextTimeout ==
    \/ DidOpen(FormatFixtures)
    \/ DocumentFormatting
    \/ StdoutData
    \/ ProcessError
    \/ TimeoutKill
    \/ ProcessClose

\* the timer of a running formatter fires, and a child that was sent
\* SIGTERM or that failed to launch delivers its 'close' event
FairFormat ==
    /\ Init /\ [][NextTimeout]_vars
    /\ WF_vars(TimeoutKill)
    /\ WF_vars(ProcessClose /\ fmt.pc # "running")

====
